---- MODULE Spec2Model ----
(***************************************************************************)
(* State-machine model of shelly::ShellySwitch (src/src/shelly_switch.cpp) *)
(* One switch bound to one Output, an optional Input, its config record    *)
(* (struct mgos_config_sw), its auto-off timer handle and the mgos timer   *)
(* table.  Handlers run to completion on one event loop, so every handler  *)
(* is one action.  The composition of the two switches of the Shelly 2.5   *)
(* (src/src/Shelly25/shelly_init.cpp) is followed by SpecComp.             *)
(***************************************************************************)
EXTENDS Integers, Sequences, FiniteSets, TLC

\* ---------------------------------------------------------------- bounds
MaxTimerId == 2
MaxTransitions == 3
NumObservers == 2
MaxHandlerId == 2

\* ------------------------------------------------------- program constants
MGOS_INVALID_TIMER_ID == 0
MaxNameLen == 64
kMomentary == 0
kToggle == 1
kEdge == 2
kDetached == 3
kOff == 0
kOn == 1
kLast == 2
kInput == 3

\* A char pointer is <<>> (nullptr) or <<s>> (a NUL-terminated string s).
NULL == <<>>
Str(s) == <<s>>
strlen(p) == Len(p[1])

Name64 == "xxxxxxxxxxxxxxxxxxxxxxxxxxxxxxxxxxxxxxxxxxxxxxxxxxxxxxxxxxxxxxxx"
Name65 == "xxxxxxxxxxxxxxxxxxxxxxxxxxxxxxxxxxxxxxxxxxxxxxxxxxxxxxxxxxxxxxxxx"

TimerIds == 1..MaxTimerId
state_notify_chars_ == 1..NumObservers
HandlerIds == 0..MaxHandlerId

VARIABLES
  pc,                  \* "absent", "constructed", "running", "destroyed",
                       \* "crashed"
  in_,                 \* TRUE iff in_ != nullptr
  in_state,            \* level of the Input
  in_handlers,         \* handler ids of this switch registered with the Input
  handler_id_,
  out_state,           \* level of the Output
  cfg,                 \* *cfg_
  auto_off_timer_id_,
  timers,              \* live one-shot timers of the mgos timer table
  restart_required,    \* the caller's *restart_required
  notified,            \* RaiseEvent calls received, per observer
  transitions,         \* number of changes of the Output level
  op,                  \* the handler that ran last, with its arguments and result
  call,                \* the SetStateInternal invocation of that handler, if any
  intervened,          \* a manual SetState call or a SetConfig call that disabled
                       \* auto_off has run since the pending timer was armed
  seen_change,         \* a kChange event has been delivered to InputEventHandler
                       \* with in_mode kToggle, and in_mode is kToggle since
  stage,               \* how far the startup of the device has come
  sys_config,          \* mgos_sys_config: legacy_hap_layout, sw1, sw2
  outputs,             \* *outputs of CreatePeripherals
  inputs,              \* *inputs of CreatePeripherals
  comps                \* *comps of CreateComponents

swvars == <<pc, in_, in_state, in_handlers, handler_id_, out_state, cfg,
            auto_off_timer_id_, timers, restart_required, notified,
            transitions, op, call, intervened, seen_change>>

compvars == <<stage, sys_config, outputs, inputs, comps>>

vars == <<pc, in_, in_state, in_handlers, handler_id_, out_state, cfg,
          auto_off_timer_id_, timers, restart_required, notified, transitions,
          op, call, intervened, seen_change, stage, sys_config, outputs,
          inputs, comps>>

NoCall == [wrote |-> FALSE, new_state |-> FALSE, cur_state |-> FALSE,
           source |-> "", is_auto_off |-> FALSE, saved |-> FALSE,
           cancelled |-> FALSE, armed |-> FALSE]

NoOp == [name |-> "none", status |-> "", ev |-> "", level |-> FALSE,
         delivered |-> FALSE, keys |-> {}, viol |-> {}, diff |-> {}]

\* ---------------------------------------------------------------- timers
mgos_clear_timer(tmrs, id) == {t \in tmrs : t.id # id}

FreeTimerIds(tmrs) == TimerIds \ {t.id : t \in tmrs}

\* The id mgos_set_timer hands out: the lowest one not in use.
NewTimerId(tmrs) ==
  {id \in FreeTimerIds(tmrs) : \A other \in FreeTimerIds(tmrs) : id <= other}

\* seq numbers the arming: the count of Output transitions, this one included.
mgos_set_timer(tmrs, id, msecs, seq) ==
  tmrs \cup {[id |-> id, msecs |-> msecs, seq |-> seq]}

\* ------------------------------------------------------- SetStateInternal
\* Variants of the code below, each with one plausible slip.
NeedSave_ComparesOutput(new_state) == out_state # new_state

NeedSave_Always(new_state) == TRUE

NoChange_Never(new_state, cur_state) == FALSE

CancelTimer_Forgets(tmrs, tid) == tmrs

NeedArm_Inverted(is_auto_off) == cfg.auto_off /\ is_auto_off

AutoOffStillEnabled_NotChecked == TRUE

MomentaryLevel_BothEdges(state) == {~out_state}

ToggleLevel_Inverts(state) == {~out_state}

EdgeLevel_RisingOnly(state) == IF state THEN {~out_state} ELSE {}

InitialLevel_InputAnyMode ==
  CASE cfg.initial_state = kOff -> {FALSE}
    [] cfg.initial_state = kOn -> {TRUE}
    [] cfg.initial_state = kLast -> {cfg.state}
    [] cfg.initial_state = kInput -> IF in_ THEN {in_state} ELSE {}
    [] OTHER -> {}

Enabled_Ignored == TRUE

RemoveHandler_Forgets(hs, id) == hs

compat_20_IgnoresDetached == sys_config.legacy_hap_layout

reverse_Identity(s) == s

\* line 165
NeedSave(new_state) == cfg.state # new_state

\* line 170
NoChange(new_state, cur_state) == new_state = cur_state

\* lines 175-180
CancelTimer(tmrs, tid) ==
  IF tid # MGOS_INVALID_TIMER_ID THEN mgos_clear_timer(tmrs, tid) ELSE tmrs

\* line 182
NeedArm(is_auto_off) == cfg.auto_off /\ ~is_auto_off

\* line 184
TimerMsecs == cfg.auto_off_delay * 1000

\* lines 171-173
RaiseEvents(n) == [c \in state_notify_chars_ |-> n[c] + 1]

\* tid, tmrs: the timer handle and the timer table as the caller left them.
SetStateInternal(new_state, source, is_auto_off, tid, tmrs) ==
  LET cur_state == out_state
      save == NeedSave(new_state)
      same == NoChange(new_state, cur_state)
      arm == ~same /\ NeedArm(is_auto_off)
      tmrs1 == IF same THEN tmrs ELSE CancelTimer(tmrs, tid)
  IN /\ out_state' = new_state
     /\ cfg' = IF save THEN [cfg EXCEPT !.state = new_state] ELSE cfg
     /\ notified' = IF same THEN notified ELSE RaiseEvents(notified)
     /\ transitions' = IF new_state # cur_state THEN transitions + 1
                       ELSE transitions
     /\ IF arm
          THEN \E id \in NewTimerId(tmrs1) :
                 /\ timers' = mgos_set_timer(tmrs1, id, TimerMsecs,
                                             transitions + 1)
                 /\ auto_off_timer_id_' = id
          ELSE /\ timers' = tmrs1
               /\ auto_off_timer_id_' =
                    IF same THEN tid ELSE MGOS_INVALID_TIMER_ID
     /\ call' = [wrote |-> TRUE, new_state |-> new_state,
                 cur_state |-> cur_state, source |-> source,
                 is_auto_off |-> is_auto_off, saved |-> save,
                 cancelled |-> (~same /\ tmrs1 # tmrs), armed |-> arm]

\* lines 157-159
SetState(new_state, source) ==
  SetStateInternal(new_state, source, FALSE, auto_off_timer_id_, timers)

\* Calls that are not auto-off firings leave room for the firing they may arm.
Room == transitions + 2 <= MaxTransitions

\* The ghost of a pending timer's history: reset by an arming, kept while the
\* same timer stays pending, set by the manual commands named in `manual`.
Intervened(manual) ==
  intervened' = (timers' # {} /\ ~call'.armed /\ (intervened \/ manual))

\* ------------------------------------------------------------------ Init
\* lines 131-147: the level Init passes to SetState, as a set (empty: no call)
InitialLevel ==
  CASE cfg.initial_state = kOff -> {FALSE}
    [] cfg.initial_state = kOn -> {TRUE}
    [] cfg.initial_state = kLast -> {cfg.state}
    [] cfg.initial_state = kInput ->
         IF in_ /\ cfg.in_mode = kToggle THEN {in_state} ELSE {}
    [] OTHER -> {}

\* lines 150-153
AddHandler ==
  IF in_ THEN /\ handler_id_' = 1
              /\ in_handlers' = in_handlers \cup {1}
         ELSE UNCHANGED <<handler_id_, in_handlers>>

\* line 127
Enabled == cfg.enable

\* lines 126-155
SwitchInit ==
  /\ pc = "constructed"
  /\ pc' = "running"
  /\ op' = [NoOp EXCEPT !.name = "Init", !.status = "OK"]
  /\ IF ~Enabled
       THEN /\ call' = NoCall
            /\ UNCHANGED <<out_state, cfg, notified, transitions, timers,
                           auto_off_timer_id_, handler_id_, in_handlers>>
       ELSE /\ IF InitialLevel = {}
                 THEN /\ call' = NoCall
                      /\ UNCHANGED <<out_state, cfg, notified, transitions,
                                     timers, auto_off_timer_id_>>
                 ELSE \E v \in InitialLevel : SetState(v, "init")
            /\ AddHandler
  /\ Intervened(FALSE)
  /\ UNCHANGED <<in_, in_state, restart_required, seen_change>>
  /\ UNCHANGED compvars

\* -------------------------------------------------------------- SetState
\* A remote command: ShellySwitch::SetState called by the protocol layer.
RemoteSetState(v) ==
  /\ pc = "running"
  /\ Room
  /\ SetState(v, "remote")
  /\ op' = [NoOp EXCEPT !.name = "SetState", !.status = "OK", !.level = v]
  /\ Intervened(TRUE)
  /\ UNCHANGED <<pc, in_, in_state, in_handlers, handler_id_,
                 restart_required, seen_change>>
  /\ UNCHANGED compvars

\* ------------------------------------------------------- AutoOffTimerCB
\* line 194
AutoOffStillEnabled == cfg.auto_off

\* How a callback bound to this switch runs.  Once the switch is destroyed
\* its `this` dangles: the call may trap, or run on the stale object.
Callback == IF pc = "destroyed" THEN {"crash", "run"} ELSE {"run"}

\* lines 191-198: the one-shot timer t fires and leaves the timer table.
AutoOffTimerCB(t) ==
  /\ pc \in {"running", "destroyed"}
  /\ t \in timers
  /\ \E outcome \in Callback :
       IF outcome = "crash"
         THEN /\ pc' = "crashed"
              /\ op' = [NoOp EXCEPT !.name = "AutoOffTimerCB",
                                    !.status = "USE_AFTER_FREE"]
              /\ timers' = timers \ {t}
              /\ call' = NoCall
              /\ UNCHANGED <<out_state, cfg, notified, transitions,
                             auto_off_timer_id_>>
         ELSE /\ op' = [NoOp EXCEPT !.name = "AutoOffTimerCB",
                                    !.status = "OK"]
              /\ IF AutoOffStillEnabled
                   THEN SetStateInternal(FALSE, "auto_off", TRUE,
                                         MGOS_INVALID_TIMER_ID, timers \ {t})
                   ELSE /\ auto_off_timer_id_' = MGOS_INVALID_TIMER_ID
                        /\ timers' = timers \ {t}
                        /\ call' = NoCall
                        /\ UNCHANGED <<out_state, cfg, notified, transitions>>
              /\ UNCHANGED pc
  /\ Intervened(FALSE)
  /\ UNCHANGED <<in_, in_state, in_handlers, handler_id_, restart_required,
                 seen_change>>
  /\ UNCHANGED compvars

\* ---------------------------------------------------- InputEventHandler
\* lines 203-207
MomentaryLevel(state) == IF state THEN {~out_state} ELSE {}

\* lines 208-210
ToggleLevel(state) == {state}

\* lines 211-213
EdgeLevel(state) == {~out_state}

\* lines 200-218: the level the handler passes to SetState, as a set
InputLevel(ev, state) ==
  IF ev # "kChange" THEN {}
  ELSE CASE cfg.in_mode = kMomentary -> MomentaryLevel(state)
         [] cfg.in_mode = kToggle -> ToggleLevel(state)
         [] cfg.in_mode = kEdge -> EdgeLevel(state)
         [] cfg.in_mode = kDetached -> {}
         [] OTHER -> {}

InputSource == IF cfg.in_mode = kToggle THEN "switch" ELSE "button"

InputEventHandler(ev, state) ==
  IF InputLevel(ev, state) = {}
    THEN /\ call' = NoCall
         /\ UNCHANGED <<out_state, cfg, notified, transitions, timers,
                        auto_off_timer_id_>>
    ELSE \E v \in InputLevel(ev, state) : SetState(v, InputSource)

\* The Input reports a change of its level (kChange) or another kind of event,
\* and calls the handlers registered with it.  The Input outlives the switch.
InputEvent(ev) ==
  /\ pc \in {"running", "destroyed"}
  /\ Room
  /\ in_
  /\ LET state == IF ev = "kChange" THEN ~in_state ELSE in_state
         delivered == handler_id_ \in in_handlers
     IN /\ in_state' = state
        /\ seen_change' = (/\ cfg.in_mode = kToggle
                            /\ (seen_change \/ (delivered /\ ev = "kChange")))
        /\ \E outcome \in (IF delivered THEN Callback ELSE {"none"}) :
             /\ op' = [NoOp EXCEPT !.name = "InputEvent",
                                   !.status = IF outcome = "crash"
                                                THEN "USE_AFTER_FREE"
                                                ELSE "OK",
                                   !.ev = ev, !.level = state,
                                   !.delivered = delivered]
             /\ pc' = IF outcome = "crash" THEN "crashed" ELSE pc
             /\ IF outcome = "run"
                  THEN InputEventHandler(ev, state)
                  ELSE /\ call' = NoCall
                       /\ UNCHANGED <<out_state, cfg, notified, transitions,
                                      timers, auto_off_timer_id_>>
        /\ Intervened(call'.wrote)
  /\ UNCHANGED <<in_, in_handlers, handler_id_, restart_required>>
  /\ UNCHANGED compvars

\* ------------------------------------------------------------ destructor
\* handler_id_ is written by Init alone (line 151) and is absent from the
\* constructor's initializer list (lines 30-38): read before Init has
\* registered a handler, its value is indeterminate (0 in the model).
HandlerIdRead == IF handler_id_ = 0 THEN HandlerIds ELSE {handler_id_}

\* Input::RemoveHandler, on the handlers of this switch
RemoveHandler(hs, id) == hs \ {id}

\* lines 40-48
SwitchDestroy ==
  /\ pc \in {"constructed", "running"}
  /\ pc' = "destroyed"
  /\ op' = [NoOp EXCEPT !.name = "~ShellySwitch", !.status = "OK"]
  /\ timers' = IF auto_off_timer_id_ # MGOS_INVALID_TIMER_ID
                 THEN mgos_clear_timer(timers, auto_off_timer_id_)
                 ELSE timers
  /\ auto_off_timer_id_' = MGOS_INVALID_TIMER_ID
  /\ IF in_
       THEN \E id \in HandlerIdRead :
              in_handlers' = RemoveHandler(in_handlers, id)
       ELSE UNCHANGED in_handlers
  /\ call' = NoCall
  /\ Intervened(FALSE)
  /\ UNCHANGED <<in_, in_state, handler_id_, out_state, cfg,
                 restart_required, notified, transitions, seen_change>>
  /\ UNCHANGED compvars

\* ------------------------------------------------------------- SetConfig
\* A payload is a function from the keys present in the JSON text to values.
Has(p, f) == f \in DOMAIN p

\* lines 77-83: the candidate starts as a copy of *cfg_ with name = nullptr;
\* json_scanf stores the keys it finds and leaves the other targets alone.
json_scanf(p) ==
  [cfg EXCEPT
     !.name = IF Has(p, "name") THEN Str(p.name) ELSE NULL,
     !.svc_type = IF Has(p, "svc_type") THEN p.svc_type ELSE @,
     !.in_mode = IF Has(p, "in_mode") THEN p.in_mode ELSE @,
     !.initial_state = IF Has(p, "initial_state") THEN p.initial_state ELSE @,
     !.auto_off = IF Has(p, "auto_off") THEN p.auto_off ELSE @,
     !.auto_off_delay =
        IF Has(p, "auto_off_delay") THEN p.auto_off_delay ELSE @]

BadName_OffByOne(c) == c.name # NULL /\ strlen(c.name) > MaxNameLen + 1

\* line 86
BadName(c) == c.name # NULL /\ strlen(c.name) > MaxNameLen

\* line 90
BadSvcType(c) == c.svc_type < -1 \/ c.svc_type > 2

\* line 93
BadInMode(c) == c.in_mode < 0 \/ c.in_mode > 3

\* lines 96, 100
BadInitialState(c) == c.initial_state < 0 \/ c.initial_state > 3

\* lines 86-102: the field of the first failing check, "" if none fails
Validate(c) ==
  IF BadName(c) THEN "name"
  ELSE IF BadSvcType(c) THEN "svc_type"
  ELSE IF BadInMode(c) THEN "in_mode"
  ELSE IF BadInitialState(c) THEN "initial_state"
  ELSE ""

\* line 105: "skip" when cfg_->name is nullptr and strcmp is not evaluated.
\* strcmp(cfg_->name, nullptr) dereferences a null pointer: the call may
\* trap, or return either result.
NameCmp(old, new) ==
  IF old = NULL THEN {"skip"}
  ELSE IF new = NULL THEN {"crash", "ne", "eq"}
  ELSE IF old = new THEN {"eq"}
  ELSE {"ne"}

\* lines 113-117
DetachChange(old_mode, new_mode) ==
  old_mode # new_mode /\ (old_mode = kDetached \/ new_mode = kDetached)

\* lines 104-117
RestartRequired(c, cmp) ==
  \/ cmp = "ne"
  \/ cfg.svc_type # c.svc_type
  \/ DetachChange(cfg.in_mode, c.in_mode)

\* lines 105-122
Commit(c, cmp) ==
  [cfg EXCEPT
     !.name = IF cmp = "ne" THEN c.name ELSE @,
     !.svc_type = c.svc_type,
     !.in_mode = c.in_mode,
     !.initial_state = c.initial_state,
     !.auto_off = c.auto_off,
     !.auto_off_delay = c.auto_off_delay]

\* lines 79-84: the keys json_scanf looks for
CfgFields ==
  {"name", "svc_type", "in_mode", "initial_state", "auto_off",
   "auto_off_delay"}

\* What the payload asks for, for the record of the call: the rules its values
\* break and the fields whose value differs from the current one.
Violations(p) ==
  {f \in DOMAIN p :
     \/ f = "name" /\ Len(p[f]) > 64
     \/ f = "svc_type" /\ ~(p[f] \in -1..2)
     \/ f \in {"in_mode", "initial_state"} /\ ~(p[f] \in 0..3)}

Differences(p) ==
  {f \in DOMAIN p : IF f = "name" THEN Str(p[f]) # cfg.name ELSE p[f] # cfg[f]}

\* lines 75-124
SetConfig(p) ==
  /\ pc = "running"
  /\ LET c == json_scanf(p)
         bad == Validate(c)
         rec == [NoOp EXCEPT !.name = "SetConfig", !.keys = DOMAIN p,
                             !.viol = Violations(p), !.diff = Differences(p)]
     IN IF bad # ""
          THEN /\ op' = [rec EXCEPT !.status = "INVALID_ARGUMENT", !.ev = bad]
               /\ UNCHANGED <<pc, cfg, restart_required>>
          ELSE \E cmp \in NameCmp(cfg.name, c.name) :
                 IF cmp = "crash"
                   THEN /\ pc' = "crashed"
                        /\ op' = [rec EXCEPT !.status = "CRASH"]
                        /\ restart_required' = FALSE
                        /\ UNCHANGED cfg
                   ELSE /\ cfg' = Commit(c, cmp)
                        /\ restart_required' = RestartRequired(c, cmp)
                        /\ op' = [rec EXCEPT !.status = "OK"]
                        /\ UNCHANGED pc
  /\ call' = NoCall
  /\ UNCHANGED <<in_, in_state, in_handlers, handler_id_, out_state,
                 auto_off_timer_id_, timers, notified, transitions>>
  /\ seen_change' = (seen_change /\ cfg'.in_mode = kToggle)
  /\ Intervened(cfg.auto_off /\ ~cfg'.auto_off)
  /\ UNCHANGED compvars

\* ------------------------------------------------------------ the machine
InitialConfigs ==
  [name : {Str("a")}, svc_type : {0}, in_mode : 0..3,
   initial_state : 0..3, auto_off : BOOLEAN, auto_off_delay : {1},
   state : BOOLEAN, enable : BOOLEAN]

NoKey == [f \in {} |-> 0]
Key(f, vals) == {NoKey} \cup {(f :> v) : v \in vals}

\* The payloads of the remote configuration calls of Spec: a mode change or an
\* auto-off change, with the name restated, a mode out of range, and a mode
\* change that leaves the name out.
Payloads ==
  {("name" :> "a") @@ k :
     k \in Key("in_mode", 0..4) \cup Key("auto_off", BOOLEAN)}
  \cup {("in_mode" :> kToggle)}

\* mgos_sys_config as far as CreateComponents reads it
SwConfigs == [in_mode : kMomentary..kDetached, enable : BOOLEAN]

SysConfigs ==
  [legacy_hap_layout : BOOLEAN, sw1 : SwConfigs, sw2 : SwConfigs]

\* The specifications that follow one switch start when the startup of the
\* device is over, and leave its record aside.
Composed ==
  /\ stage = "components"
  /\ sys_config = [legacy_hap_layout |-> FALSE,
                   sw1 |-> [in_mode |-> kMomentary, enable |-> TRUE],
                   sw2 |-> [in_mode |-> kMomentary, enable |-> TRUE]]
  /\ outputs = <<>>
  /\ inputs = <<>>
  /\ comps = <<>>

Init ==
  /\ pc = "constructed"
  /\ in_ \in BOOLEAN
  /\ in_state \in BOOLEAN
  /\ in_handlers = {}
  /\ handler_id_ = 0
  /\ out_state \in BOOLEAN
  /\ cfg \in InitialConfigs
  /\ auto_off_timer_id_ = MGOS_INVALID_TIMER_ID
  /\ timers = {}
  /\ restart_required = FALSE
  /\ notified = [c \in state_notify_chars_ |-> 0]
  /\ transitions = 0
  /\ op = NoOp
  /\ call = NoCall
  /\ intervened = FALSE
  /\ seen_change = FALSE
  /\ Composed

Next ==
  \/ SwitchInit
  \/ \E v \in BOOLEAN : RemoteSetState(v)
  \/ \E p \in Payloads : SetConfig(p)
  \/ \E ev \in {"kChange", "kOther"} : InputEvent(ev)
  \/ \E t \in timers : AutoOffTimerCB(t)

Spec == Init /\ [][Next]_vars

\* The event loop calls the callback of every timer that has been set and
\* not cleared.
FairSpec == Spec /\ WF_vars(\E t \in timers : AutoOffTimerCB(t))

\* ------------------------------------------- the configuration interface
\* SpecCfg exercises SetConfig over wide payloads on a switch without Input
\* whose Init may arm the auto-off timer.
CfgInitialConfigs ==
  [name : {NULL, Str("a")}, svc_type : {0}, in_mode : {kMomentary, kToggle},
   initial_state : {kOn}, auto_off : BOOLEAN, auto_off_delay : {1},
   state : {FALSE}, enable : {TRUE}]

CfgKeys ==
  [name |-> {"b", Name65},
   svc_type |-> {-2, 2, 3},
   in_mode |-> {-1, kDetached, 4},
   initial_state |-> {kOff, 4},
   auto_off |-> {FALSE},
   auto_off_delay |-> {-1, 2}]

\* Payloads with at most two keys.
CfgPayloads ==
  {k1 @@ k2 : k1 \in UNION {Key(f, CfgKeys[f]) : f \in DOMAIN CfgKeys},
              k2 \in UNION {Key(f, CfgKeys[f]) : f \in DOMAIN CfgKeys}}

InitCfg ==
  /\ pc = "constructed"
  /\ in_ = FALSE
  /\ in_state = FALSE
  /\ in_handlers = {}
  /\ handler_id_ = 0
  /\ out_state = FALSE
  /\ cfg \in CfgInitialConfigs
  /\ auto_off_timer_id_ = MGOS_INVALID_TIMER_ID
  /\ timers = {}
  /\ restart_required = FALSE
  /\ notified = [c \in state_notify_chars_ |-> 0]
  /\ transitions = 0
  /\ op = NoOp
  /\ call = NoCall
  /\ intervened = FALSE
  /\ seen_change = FALSE
  /\ Composed

NextCfg ==
  \/ SwitchInit
  \/ \E p \in CfgPayloads : SetConfig(p)
  \/ \E t \in timers : AutoOffTimerCB(t)

SpecCfg == InitCfg /\ [][NextCfg]_vars

\* ------------------------------------------------------- the life cycle
\* SpecLife adds the destruction of the switch at shutdown, at any moment
\* after its construction.
NextLife ==
  \/ Next
  \/ SwitchDestroy

SpecLife == Init /\ [][NextLife]_vars

\* ---------------------------------------------------------- composition
\* src/src/Shelly25/shelly_init.cpp
OutputPin(id, pin) == [id |-> id, pin |-> pin]

\* lines 33-34, 36-37: the pin with its reset-sequence handler added
InputPin(id, pin, out_pin) ==
  [id |-> id, pin |-> pin,
   handlers |-> {<<"HandleInputResetSequence", out_pin>>}]

\* lines 26-40
CreatePeripherals ==
  /\ stage = "boot"
  /\ stage' = "peripherals"
  /\ outputs' = outputs \o <<OutputPin(1, 4), OutputPin(2, 15)>>
  /\ inputs' = inputs \o <<InputPin(1, 13, 4), InputPin(2, 5, 15)>>
  /\ UNCHANGED <<sys_config, comps>>
  /\ UNCHANGED swvars

\* CreateHAPSwitch adds the component of switch id to *comps; nth numbers the
\* calls in the order they are made.
CreateHAPSwitch(id, sw_cfg, cs, to_pri_acc) ==
  Append(cs, [id |-> id, cfg |-> sw_cfg, to_pri_acc |-> to_pri_acc,
              nth |-> Len(cs) + 1])

\* lines 47-49
compat_20 ==
  /\ sys_config.legacy_hap_layout
  /\ sys_config.sw1.in_mode # 3
  /\ sys_config.sw2.in_mode # 3

\* line 60: std::reverse
reverse(s) == [i \in 1..Len(s) |-> s[Len(s) + 1 - i]]

\* lines 42-62
CreateComponents ==
  /\ stage = "peripherals"
  /\ stage' = "components"
  /\ IF ~compat_20
       THEN comps' =
              CreateHAPSwitch(2, sys_config.sw2,
                              CreateHAPSwitch(1, sys_config.sw1, comps, FALSE),
                              FALSE)
       ELSE comps' =
              reverse(CreateHAPSwitch(1, sys_config.sw1,
                                      CreateHAPSwitch(2, sys_config.sw2, comps,
                                                      TRUE),
                                      TRUE))
  /\ UNCHANGED <<sys_config, outputs, inputs>>
  /\ UNCHANGED swvars

\* No switch exists before CreateComponents has run.
InitComp ==
  /\ stage = "boot"
  /\ sys_config \in SysConfigs
  /\ outputs = <<>>
  /\ inputs = <<>>
  /\ comps = <<>>
  /\ pc = "absent"
  /\ in_ = FALSE
  /\ in_state = FALSE
  /\ in_handlers = {}
  /\ handler_id_ = 0
  /\ out_state = FALSE
  /\ cfg = [name |-> NULL, svc_type |-> 0, in_mode |-> kMomentary,
            initial_state |-> kOff, auto_off |-> FALSE, auto_off_delay |-> 0,
            state |-> FALSE, enable |-> FALSE]
  /\ auto_off_timer_id_ = MGOS_INVALID_TIMER_ID
  /\ timers = {}
  /\ restart_required = FALSE
  /\ notified = [c \in state_notify_chars_ |-> 0]
  /\ transitions = 0
  /\ op = NoOp
  /\ call = NoCall
  /\ intervened = FALSE
  /\ seen_change = FALSE

NextComp ==
  \/ CreatePeripherals
  \/ CreateComponents

SpecComp == InitComp /\ [][NextComp]_vars

\* ================================================================ claims

\* C1: right after a SetState(v, source) call returns, the Output's level is v
\* and the persisted cfg.state is v.
C1_SetStateTakesEffect ==
  op.name = "SetState" =>
    /\ call.wrote /\ call.new_state = op.level
    /\ out_state = op.level
    /\ cfg.state = op.level

\* A later SetState call of a sequence, one that changed the level and saved.
C1_Witness ==
  /\ op.name = "SetState" /\ op.level
  /\ ~call.cur_state /\ call.saved
  /\ transitions >= 2

\* C2 as claimed: the apply routine saves cfg.state if and only if the
\* Output's level changes.
C2_SaveIffLevelChanges ==
  [][call'.wrote => (call'.saved <=> out_state' # out_state)]_vars

\* C2 as amended: the apply routine updates and saves cfg.state if and only
\* if the persisted cfg.state differs from the new level; when cfg.state
\* equals the Output's level before the call, that is if and only if the
\* level changes; and every completed call leaves cfg.state equal to the
\* Output's level.
C2_SaveIffPersistedDiffers ==
  [][call'.wrote =>
       /\ call'.saved <=> cfg.state # call'.new_state
       /\ cfg.state = out_state => (call'.saved <=> out_state' # out_state)
       /\ call'.saved => cfg'.state = call'.new_state
       /\ ~call'.saved => cfg' = cfg
       /\ cfg'.state = out_state']_vars

\* The first state write after startup saves without a change of level.
C2_Witness ==
  /\ call.wrote /\ call.saved /\ call.new_state = call.cur_state
  /\ cfg.state = out_state

\* C3: at most one auto-off timer is armed; it is the one the handle names and
\* the one armed by the latest transition; and a transition that is not an
\* auto-off firing, with auto_off enabled, leaves exactly one armed.
C3_OneTimer ==
  /\ Cardinality(timers) <= 1
  /\ \A t \in timers : t.id = auto_off_timer_id_ /\ t.seq = transitions
  /\ auto_off_timer_id_ # MGOS_INVALID_TIMER_ID => timers # {}
  /\ (/\ call.wrote /\ call.new_state # call.cur_state
      /\ ~call.is_auto_off /\ cfg.auto_off) => Cardinality(timers) = 1

\* The second of two transitions in succession cancelled the first one's timer
\* and armed its own.
C3_Witness ==
  /\ call.cancelled /\ call.armed
  /\ transitions >= 2
  /\ \E t \in timers : timers = {t} /\ t.seq = transitions

\* C4: a transition to On that is not an auto-off firing, with auto_off
\* enabled, is followed by the auto-off transition to Off unless a SetState
\* call, an input event or a SetConfig call comes first.
C4_TurnedOn ==
  /\ pc = "running"
  /\ call.wrote /\ call.new_state /\ ~call.cur_state /\ ~call.is_auto_off
  /\ cfg.auto_off

C4_AutoOff ==
  /\ op.name = "AutoOffTimerCB"
  /\ call.wrote /\ call.source = "auto_off" /\ call.is_auto_off
  /\ call.cur_state /\ ~call.new_state /\ ~out_state

C4_OtherCall ==
  op.name \in {"SetState", "InputEvent", "SetConfig"} /\ ~C4_TurnedOn

C4_AutoOffFires == C4_TurnedOn ~> (C4_AutoOff \/ C4_OtherCall)

C4_Witness == C4_AutoOff /\ cfg.auto_off /\ timers = {}

\* C5 as claimed: an auto-off firing never changes the Output's level once a
\* manual SetState call (with any value) or a SetConfig call that disabled
\* auto_off has run since the timer was armed.
C5_ManualCommandCancels ==
  [][(op'.name = "AutoOffTimerCB" /\ out_state' # out_state) => ~intervened]_vars

\* C5 as amended: a state write that changes the Output's level and is not an
\* auto-off firing removes every timer that was pending, so that timer never
\* fires; a firing with auto_off disabled leaves the Output alone; and a
\* firing changes the level only if auto_off is enabled and no change of
\* level has occurred since the timer was armed.  A SetState call with the
\* current value leaves the pending timer in place.
C5_ChangeCancels ==
  [][/\ (call'.wrote /\ ~call'.is_auto_off /\ out_state' # out_state) =>
          \A t \in timers : t \notin timers'
     /\ (op'.name = "AutoOffTimerCB" /\ ~cfg.auto_off) =>
          out_state' = out_state
     /\ (op'.name = "AutoOffTimerCB" /\ out_state' # out_state) =>
          /\ cfg.auto_off
          /\ \A t \in timers \ timers' : t.seq = transitions
     /\ (call'.wrote /\ ~call'.is_auto_off /\ out_state' = out_state) =>
          timers' = timers]_vars

\* A manual Off during the delay window cancelled the pending timer.
C5_Witness ==
  /\ op.name = "SetState" /\ ~op.level
  /\ call.cur_state /\ call.cancelled
  /\ ~out_state

\* C6: every observer has been notified once per change of the Output's level,
\* whatever caused it, and never by a call that left the level as it was.
C6_NotifiedOncePerTransition ==
  \A c \in state_notify_chars_ : notified[c] = transitions

\* Two changes of level, then a call that changed nothing.
C6_Witness ==
  /\ transitions >= 2
  /\ \A c \in state_notify_chars_ : notified[c] = transitions
  /\ call.wrote /\ call.new_state = call.cur_state

\* C7: a SetConfig call whose payload breaks a validation rule returns
\* InvalidArgument and changes no field of the config, nor the Output, the
\* timer, the observers, the input handler or the caller's restart flag.
C7_InvalidPayloadChangesNothing ==
  [][(op'.name = "SetConfig" /\ op'.viol # {}) =>
       /\ op'.status = "INVALID_ARGUMENT"
       /\ op'.ev \in op'.viol
       /\ UNCHANGED <<cfg, out_state, timers, auto_off_timer_id_,
                      restart_required, notified, transitions, in_handlers,
                      handler_id_, pc>>]_vars

\* A name of 65 characters rejected, in a payload that also asks for a valid
\* change of another field, while a timer is pending.
C7_Witness ==
  /\ op.name = "SetConfig" /\ op.status = "INVALID_ARGUMENT"
  /\ op.viol = {"name"} /\ op.ev = "name"
  /\ op.diff \ {"name"} # {}
  /\ timers # {}

\* C8: a successful SetConfig call sets restart_required exactly when the
\* payload's name differs from the stored one (an unset one included), the
\* service type changes, or in_mode changes to or from Detached.
C8_RestartRequired ==
  [][(op'.name = "SetConfig" /\ op'.status = "OK") =>
       (restart_required' <=>
          \/ "name" \in op'.diff
          \/ "svc_type" \in op'.diff
          \/ /\ "in_mode" \in op'.diff
             /\ (cfg.in_mode = kDetached \/ cfg'.in_mode = kDetached))]_vars

\* C9 as claimed: with in_mode Toggle, once a Change event has been delivered,
\* the Output's level is the level of the most recent Change event.
C9_OutputEqualsInput ==
  (cfg.in_mode = kToggle /\ seen_change) => out_state = in_state

\* C9 as amended: with in_mode Toggle, right after a Change event has been
\* handled the Output's level (and cfg.state) is that event's level; a later
\* SetState call or auto-off firing may change it with no Input event.
C9_OutputFollowsChange ==
  (/\ op.name = "InputEvent" /\ op.ev = "kChange" /\ op.delivered
   /\ cfg.in_mode = kToggle) =>
    /\ call.wrote /\ call.source = "switch"
    /\ out_state = op.level
    /\ out_state = in_state
    /\ cfg.state = op.level

\* A Change event to On taken over by an Output that was Off.
C9_Witness ==
  /\ op.name = "InputEvent" /\ op.ev = "kChange" /\ op.delivered
  /\ cfg.in_mode = kToggle
  /\ op.level /\ ~call.cur_state /\ out_state

\* C10: with in_mode Momentary, a Change event with level true toggles the
\* Output (one transition per such event) and one with level false leaves the
\* Output, cfg.state, the observers and the timer untouched.
C10_MomentaryRisingEdge ==
  [][(/\ op'.name = "InputEvent" /\ op'.ev = "kChange" /\ op'.delivered
      /\ cfg.in_mode = kMomentary) =>
       IF op'.level
         THEN /\ out_state' = ~out_state
              /\ transitions' = transitions + 1
              /\ call'.wrote /\ call'.source = "button"
         ELSE /\ ~call'.wrote
              /\ UNCHANGED <<out_state, cfg, notified, transitions, timers,
                             auto_off_timer_id_>>]_vars

\* The second toggle by a rising edge.
C10_Witness ==
  /\ op.name = "InputEvent" /\ op.ev = "kChange" /\ op.delivered
  /\ cfg.in_mode = kMomentary
  /\ op.level /\ call.wrote /\ call.source = "button"
  /\ transitions >= 2

\* C11: with in_mode Edge, every Change event handled toggles the Output,
\* whatever the event's level, one transition per event; an Input event of
\* another kind changes nothing, in any mode.
C11_EdgeTogglesOnEveryChange ==
  [][op'.name = "InputEvent" =>
       /\ (op'.ev = "kChange" /\ op'.delivered /\ cfg.in_mode = kEdge) =>
            /\ out_state' = ~out_state
            /\ transitions' = transitions + 1
            /\ call'.wrote /\ call'.source = "button"
       /\ op'.ev # "kChange" =>
            /\ ~call'.wrote
            /\ UNCHANGED <<out_state, cfg, notified, transitions, timers,
                           auto_off_timer_id_>>]_vars

\* The second of two toggles, by a falling edge that turned the Output on.
C11_Witness ==
  /\ op.name = "InputEvent" /\ op.ev = "kChange" /\ op.delivered
  /\ cfg.in_mode = kEdge
  /\ ~op.level /\ out_state /\ call.wrote
  /\ transitions >= 2

\* C12: whenever switch 1 or switch 2 has in_mode Detached, with or without
\* the legacy-layout flag, CreateComponents creates switch 1 before switch 2,
\* both with to_pri_acc = false, and leaves comps as [switch1, switch2].
C12_DetachedForcesIndependent ==
  (/\ stage = "components"
   /\ (sys_config.sw1.in_mode = kDetached \/ sys_config.sw2.in_mode = kDetached))
  => /\ Len(comps) = 2
     /\ comps[1].id = 1 /\ comps[2].id = 2
     /\ comps[1].nth < comps[2].nth
     /\ ~comps[1].to_pri_acc /\ ~comps[2].to_pri_acc

\* The legacy flag set, overridden by a detached switch 2.
C12_Witness ==
  /\ stage = "components"
  /\ sys_config.legacy_hap_layout
  /\ sys_config.sw1.in_mode # kDetached /\ sys_config.sw2.in_mode = kDetached
  /\ Len(comps) = 2 /\ comps[1].id = 1 /\ ~comps[1].to_pri_acc

\* C13 as claimed: with the legacy-layout flag set and neither switch
\* Detached, comps is [switch2, switch1] and switch 1, and only switch 1, is
\* attached to the primary accessory.
C13_LegacyOnlySwitch1Primary ==
  (/\ stage = "components"
   /\ sys_config.legacy_hap_layout
   /\ sys_config.sw1.in_mode # kDetached /\ sys_config.sw2.in_mode # kDetached)
  => /\ Len(comps) = 2
     /\ comps[1].id = 2 /\ comps[2].id = 1
     /\ {comps[i].id : i \in {j \in 1..2 : comps[j].to_pri_acc}} = {1}

\* C13 as amended: with the legacy-layout flag set and neither switch
\* Detached, switch 2 is created before switch 1, both with to_pri_acc = true,
\* and comps is then reversed, which leaves it as [switch1, switch2].
C13_LegacyBothPrimary ==
  (/\ stage = "components"
   /\ sys_config.legacy_hap_layout
   /\ sys_config.sw1.in_mode # kDetached /\ sys_config.sw2.in_mode # kDetached)
  => /\ Len(comps) = 2
     /\ comps[1].id = 1 /\ comps[2].id = 2
     /\ comps[2].nth < comps[1].nth
     /\ comps[1].to_pri_acc /\ comps[2].to_pri_acc

\* The legacy layout of two switches in modes Toggle and Edge.
C13_Witness ==
  /\ stage = "components"
  /\ sys_config.legacy_hap_layout
  /\ sys_config.sw1.in_mode = kToggle /\ sys_config.sw2.in_mode = kEdge
  /\ Len(comps) = 2 /\ comps[1].id = 1 /\ comps[1].nth = 2
  /\ comps[2].to_pri_acc

\* C14: a firing of the auto-off timer clears the handle and leaves no timer
\* armed; with auto_off false at that moment the Output, cfg.state and the
\* observers are left as they were, with auto_off true the level is forced to
\* false by a state write that arms nothing.
C14_FiringRechecksAutoOff ==
  [][op'.name = "AutoOffTimerCB" =>
       /\ auto_off_timer_id_' = MGOS_INVALID_TIMER_ID
       /\ timers' = {}
       /\ ~call'.armed
       /\ IF cfg.auto_off
            THEN /\ call'.wrote /\ call'.is_auto_off /\ ~call'.new_state
                 /\ ~out_state'
            ELSE /\ ~call'.wrote
                 /\ UNCHANGED <<out_state, cfg, notified, transitions>>]_vars

\* A firing after auto_off was disabled, which left the Output on.
C14_Witness ==
  /\ op.name = "AutoOffTimerCB"
  /\ ~cfg.auto_off /\ ~call.wrote
  /\ out_state
  /\ timers = {} /\ auto_off_timer_id_ = MGOS_INVALID_TIMER_ID

\* C15: a state write whose new level is the Output's prior level leaves the
\* timer table and the handle as the write found them, whatever cfg.auto_off
\* is: a pending timer is kept with its deadline, none is armed.  (The write
\* of an auto-off firing finds the fired timer gone and the handle cleared.)
C15_SameLevelKeepsTimer ==
  [][(call'.wrote /\ call'.new_state = call'.cur_state) =>
       /\ ~call'.armed /\ ~call'.cancelled
       /\ IF call'.is_auto_off
            THEN /\ timers' = {t \in timers : t.id # auto_off_timer_id_}
                 /\ auto_off_timer_id_' = MGOS_INVALID_TIMER_ID
            ELSE UNCHANGED <<timers, auto_off_timer_id_>>]_vars

\* SetState(true) on a switch that is on, with auto_off enabled and its timer
\* pending.
C15_Witness ==
  /\ op.name = "SetState" /\ op.level
  /\ call.wrote /\ call.cur_state
  /\ cfg.auto_off
  /\ timers # {} /\ auto_off_timer_id_ # MGOS_INVALID_TIMER_ID

\* C16: Init on an enabled switch writes false for initial_state Off, true for
\* On, the persisted cfg.state for Last, and for Input the Input's level if an
\* Input is present and in_mode is Toggle, and otherwise writes nothing; no
\* handler is registered before Init, and Init registers one exactly if an
\* Input is present.
C16_InitAppliesInitialState ==
  [][(op'.name = "Init" /\ cfg.enable) =>
       /\ cfg.initial_state = kOff => call'.wrote /\ ~out_state'
       /\ cfg.initial_state = kOn => call'.wrote /\ out_state'
       /\ cfg.initial_state = kLast =>
            call'.wrote /\ out_state' = cfg.state
       /\ cfg.initial_state = kInput =>
            IF in_ /\ cfg.in_mode = kToggle
              THEN call'.wrote /\ out_state' = in_state
              ELSE /\ ~call'.wrote
                   /\ UNCHANGED <<out_state, cfg, notified, transitions,
                                  timers, auto_off_timer_id_>>
       /\ call'.wrote => call'.source = "init"
       /\ in_handlers = {}
       /\ in_handlers' = IF in_ THEN {handler_id_'} ELSE {}]_vars

\* initial_state Input in mode Toggle: the Output took the Input's level on.
C16_Witness ==
  /\ op.name = "Init" /\ cfg.enable
  /\ cfg.initial_state = kInput /\ cfg.in_mode = kToggle /\ in_
  /\ call.wrote /\ ~call.cur_state /\ out_state /\ in_state
  /\ in_handlers = {handler_id_}

\* C17: Init on a switch with cfg.enable false writes nothing, saves nothing,
\* notifies no observer, arms no timer and registers no handler; no later
\* Input event reaches the switch.
C17_DisabledInitInert ==
  [][/\ (op'.name = "Init" /\ ~cfg.enable) =>
          /\ ~call'.wrote
          /\ UNCHANGED <<out_state, cfg, notified, transitions, timers,
                         auto_off_timer_id_, in_handlers, handler_id_>>
     /\ (op'.name = "InputEvent" /\ ~cfg.enable) =>
          /\ ~op'.delivered /\ ~call'.wrote
          /\ UNCHANGED <<out_state, cfg, notified, transitions, timers,
                         auto_off_timer_id_>>]_vars

\* A Change event of the Input of a disabled switch in mode Toggle, at a level
\* the Output does not have.
C17_Witness ==
  /\ op.name = "InputEvent" /\ op.ev = "kChange"
  /\ ~cfg.enable /\ in_ /\ cfg.in_mode = kToggle
  /\ ~op.delivered
  /\ in_state # out_state

\* C18: cfg.auto_off_delay is never negative, and no auto-off timer is armed
\* with a negative delay.
C18_DelayNonNegative ==
  /\ cfg.auto_off_delay >= 0
  /\ \A t \in timers : t.msecs >= 0

\* C19: the destructor leaves no timer pending and no handler of the switch
\* registered with the Input, and leaves the Input in place; from then on no
\* timer firing and no Input event invokes the switch, and the switch's
\* Output, config, observers and timer stay as they are.
C19_DestroyedSwitchUnreachable ==
  [][/\ op'.name = "~ShellySwitch" =>
          /\ timers' = {} /\ auto_off_timer_id_' = MGOS_INVALID_TIMER_ID
          /\ in_handlers' = {}
          /\ in_' = in_
     /\ pc = "destroyed" =>
          /\ pc' = "destroyed"
          /\ op'.name = "InputEvent" /\ ~op'.delivered /\ ~call'.wrote
          /\ UNCHANGED <<out_state, cfg, notified, transitions, timers,
                         auto_off_timer_id_>>]_vars

\* A Change event of the Input after the destruction of a switch in mode
\* Toggle with auto_off that had registered its handler and been turned on.
C19_Witness ==
  /\ pc = "destroyed"
  /\ op.name = "InputEvent" /\ op.ev = "kChange" /\ ~op.delivered
  /\ handler_id_ # 0 /\ in_handlers = {}
  /\ cfg.in_mode = kToggle /\ cfg.auto_off
  /\ out_state /\ ~in_state /\ transitions >= 1
  /\ timers = {}

\* C20: a SetConfig call with a valid payload succeeds, keeps the value of
\* every field the payload leaves out, the name included, and requires a
\* restart only on account of a field that is in the payload.
C20_OmittedFieldsKept ==
  [][(op'.name = "SetConfig" /\ op'.viol = {}) =>
       /\ op'.status = "OK"
       /\ \A f \in CfgFields \ op'.keys : cfg'[f] = cfg[f]
       /\ restart_required' =>
            \/ "name" \in op'.diff
            \/ "svc_type" \in op'.diff
            \/ "in_mode" \in op'.diff]_vars

====
